---- MODULE Spec2Model ----
(***************************************************************************)
(* gbaspritenav: the sprite decoder of src/gbaspritenav.py.                *)
(*                                                                         *)
(* ROM.search opens the ROM file, reads a 32-byte palette and qty runs of  *)
(* tile data, and builds one Sprite (with its Image) per run.  Palette and *)
(* Image are pure constructors; they are modelled as operators that return *)
(* either the constructed object or the exception the constructor raises.  *)
(***************************************************************************)
EXTENDS Integers, Sequences, FiniteSets, TLC

VARIABLES rom, files, calls, dec

vars == <<rom, files, calls, dec>>

(* ---------------------------------------------------------------- bounds *)

MaxW == 2
MaxH == 3
MaxQty == 3
MaxChunks == 6

(* ------------------------------------------------------------- constants *)

ROW == 4
BLOCK == ROW * 8

PALETTE_BYTES == 32

(* 0xAAAAAAFF, the RGBA fill of the dummy image, as its four bytes *)
DUMMY_FILL == <<170, 170, 170, 255>>

(* a pixel of a pixbuf that no caller-supplied byte backs *)
Unfilled == 0 - 1

(* ------------------------------------------------------ integer helpers *)

Min(a, b) == IF a < b THEN a ELSE b

RECURSIVE Pow2(_)
Pow2(n) == IF n = 0 THEN 1 ELSE 2 * Pow2(n - 1)

(* a & b on non-negative integers, bit by bit *)
RECURSIVE BitAnd(_, _)
BitAnd(a, b) ==
    IF a = 0 \/ b = 0 THEN 0
    ELSE (a % 2) * (b % 2) + 2 * BitAnd(a \div 2, b \div 2)

(* a >> n *)
RShift(a, n) == a \div Pow2(n)

(* the concatenation of the sequences of ss, in order *)
RECURSIVE Flatten(_)
Flatten(ss) ==
    IF Len(ss) = 0 THEN <<>>
    ELSE IF Len(ss) = 1 THEN ss[1]
    ELSE Flatten(SubSeq(ss, 1, Len(ss) \div 2))
            \o Flatten(SubSeq(ss, Len(ss) \div 2 + 1, Len(ss)))

(* ------------------------------------------------------------ byte data *)

(* The contents of a byte source: byte i (0-based) of pattern g. *)
Patterns ==
    { [mul |-> 0, add |-> 0], [mul |-> 0, add |-> 255],
      [mul |-> 37, add |-> 11], [mul |-> 113, add |-> 200] }

PatByte(g, i) == (g.mul * i + g.add) % 256

Bytes(g, start, len) == [k \in 1..len |-> PatByte(g, start + k - 1)]

(* ---------------------------------------------------------------- tools *)

(* cut(iterable, chunksize) *)
Cut(s, n) ==
    [k \in 1..((Len(s) + n - 1) \div n) |->
        SubSeq(s, (k - 1) * n + 1, Min(k * n, Len(s)))]

(* -------------------------------------------------------------- Palette *)

(* struct.unpack('H', c[0:2]) on a little-endian host *)
StructUnpackH(c) == c[1] + 256 * c[2]

(* the blue mask taken one bit too wide, so that bit 15 leaks into blue *)
PaletteColorKeepsBit15(c) ==
    << BitAnd(c, 31) * 8,
       RShift(BitAnd(c, 992), 5) * 8,
       RShift(BitAnd(c, 64512), 10) * 8 >>

PaletteColor(c) ==
    << BitAnd(c, 31) * 8,
       RShift(BitAnd(c, 992), 5) * 8,
       RShift(BitAnd(c, 31744), 10) * 8 >>

(* struct.error: a chunk of fewer than 2 bytes reaches struct.unpack *)
PaletteRaises(data) ==
    data # <<>> /\ \E k \in 1..Len(Cut(data, 2)) : Len(Cut(data, 2)[k]) < 2

PaletteColors(data) ==
    IF data = <<>> THEN <<>>
    ELSE [k \in 1..Len(Cut(data, 2)) |->
             PaletteColor(StructUnpackH(Cut(data, 2)[k]))]

Palette(data, offset) == [offset |-> offset, colors |-> PaletteColors(data)]

(* ---------------------------------------------------------------- Image *)

(* blocks after the three cuts: blocks[y][x][i] is row i of tile (y, x) *)
Blocks(data, size) ==
    Cut([b \in 1..Len(Cut(data, BLOCK)) |-> Cut(Cut(data, BLOCK)[b], ROW)],
        size[1])

(* the two pixels of each of the 4 bytes of a row, low nibble first *)
RowPixels(r) ==
    Flatten([j \in 1..4 |-> << BitAnd(r[j], 15), RShift(r[j], 4) >>])

(* blocks[y][x][i] or r[j] is out of range somewhere in the loop nest *)
BytestringRaises(data, size) ==
    LET blocks == Blocks(data, size) IN
    \E y \in 1..size[2], i \in 1..(BLOCK \div ROW), x \in 1..size[1] :
        \/ y > Len(blocks)
        \/ x > Len(blocks[y])
        \/ i > Len(blocks[y][x])
        \/ Len(blocks[y][x][i]) < 4

(* the tile loops swapped: each tile is emitted whole before the next one *)
BytestringTileMajor(data, size) ==
    LET blocks == Blocks(data, size) IN
    Flatten([y \in 1..size[2] |->
        Flatten([x \in 1..size[1] |->
            Flatten([i \in 1..(BLOCK \div ROW) |-> RowPixels(blocks[y][x][i])])])])

(* the row loop one short: the last row of every tile is left out *)
BytestringSevenRows(data, size) ==
    LET blocks == Blocks(data, size) IN
    Flatten([y \in 1..size[2] |->
        Flatten([i \in 1..((BLOCK \div ROW) - 1) |->
            Flatten([x \in 1..size[1] |-> RowPixels(blocks[y][x][i])])])])

Bytestring(data, size) ==
    LET blocks == Blocks(data, size) IN
    Flatten([y \in 1..size[2] |->
        Flatten([i \in 1..(BLOCK \div ROW) |->
            Flatten([x \in 1..size[1] |-> RowPixels(blocks[y][x][i])])])])

(* palette.colors[i] is out of range for some index *)
ApplyPaletteRaises(bytestring, palette) ==
    \E k \in 1..Len(bytestring) : bytestring[k] >= Len(palette.colors)

ApplyPalette(bytestring, palette) ==
    Flatten([k \in 1..Len(bytestring) |-> palette.colors[bytestring[k] + 1]])

(* Pixbuf.new_from_data(data, RGB, no alpha, 8 bits, width, height, rowstride) *)
PixbufNewFromData(buf, width, height, rowstride) ==
    LET B(i) == IF i <= Len(buf) THEN buf[i] ELSE Unfilled IN
    [ width |-> width, height |-> height,
      pixels |-> [k \in 1..(width * height) |->
          LET off == ((k - 1) \div width) * rowstride + ((k - 1) % width) * 3
          IN  << B(off + 1), B(off + 2), B(off + 3) >>] ]

(* pixbuf.scale_simple(width, height, InterpType.NEAREST) *)
ScaleSimple(pb, width, height) ==
    [ width |-> width, height |-> height,
      pixels |-> [k \in 1..(width * height) |->
          LET X == (k - 1) % width
              Y == (k - 1) \div width
              sx == (X * pb.width) \div width
              sy == (Y * pb.height) \div height
          IN  pb.pixels[sy * pb.width + sx + 1]] ]

(* the dummy image without the doubling of its sides *)
DummyPixbufUnscaled(size) ==
    [ width |-> size[1] * 8, height |-> size[2] * 8,
      pixels |-> [k \in 1..((size[1] * 8) * (size[2] * 8)) |->
                     SubSeq(DUMMY_FILL, 1, 3)] ]

(* Pixbuf.new(RGB, no alpha, 8 bits, width, height) then fill(0xAAAAAAFF) *)
DummyPixbuf(size) ==
    [ width |-> size[1] * 8 * 2, height |-> size[2] * 8 * 2,
      pixels |-> [k \in 1..((size[1] * 8 * 2) * (size[2] * 8 * 2)) |->
                     SubSeq(DUMMY_FILL, 1, 3)] ]

ImageRaises(data, size, palette) ==
    /\ data # <<>>
    /\ \/ BytestringRaises(data, size)
       \/ ApplyPaletteRaises(Bytestring(data, size), palette)

Image(data, size, palette) ==
    IF data = <<>> THEN [pixbuf |-> DummyPixbuf(size)]
    ELSE [pixbuf |->
            ScaleSimple(
                PixbufNewFromData(ApplyPalette(Bytestring(data, size), palette),
                                  8 * size[1], 8 * size[2], 8 * size[1] * 3),
                8 * size[1] * 2, 8 * size[2] * 2)]

(* --------------------------------------------------------------- Sprite *)

Sprite(data, offset, size, palette) ==
    [ name |-> "", offset |-> offset, size |-> size,
      length |-> size[1] * size[2] * BLOCK,
      palette |-> palette,
      image |-> Image(data, size, palette) ]

(* ------------------------------------------------------------ ROM.search *)

(* f.read(n) with the cursor at pos: the bytes up to the end of the file *)
Read(r, pos, n) ==
    IF pos >= r.len THEN <<>> ELSE Bytes(r.pat, pos, Min(n, r.len - pos))

(* open(self.filename, 'rb') raises FileNotFoundError *)
OpenRaises(r) == ~r.exists

(* one file object, and so one cursor, shared by every call *)
HandleShared(c) == 1

(* the file object of a call: every call opens its own *)
Handle(c) == c

(* the except clause missing: nothing is caught *)
ExceptCatchesNothing(e) == FALSE

(* except FileNotFoundError *)
ExceptCatches(e) == e = "FileNotFoundError"

NoPalette == [offset |-> 0, colors |-> <<>>]

NewCall(offset, size, paloffset, qty) ==
    [ pc |-> "called",
      args |-> [offset |-> offset, size |-> size,
                paloffset |-> paloffset, qty |-> qty],
      palette |-> NoPalette, sprites |-> <<>>, i |-> 0,
      reads |-> <<>>, exc |-> "", ret |-> <<>> ]

IdleCall == [NewCall(0, <<1, 1>>, 0, 0) EXCEPT !.pc = "idle"]

(* an exception leaves the try block: caught (print, then return sprites) *)
(* or propagated to the caller of search                                  *)
Raise(call, e) ==
    IF ExceptCatches(e)
    THEN [call EXCEPT !.pc = "returned", !.ret = call.sprites]
    ELSE [call EXCEPT !.pc = "raised", !.exc = e]

(* with open(self.filename, 'rb') as f *)
OpenStep(r, call, pos) ==
    IF OpenRaises(r)
    THEN [call |-> Raise(call, "FileNotFoundError"), pos |-> pos]
    ELSE [call |-> [call EXCEPT !.pc = "opened"], pos |-> 0]

(* f.seek(paloffset); palette = Palette(f.read(32), paloffset) *)
PaletteStep(r, call, pos) ==
    LET at == call.args.paloffset
        data == Read(r, at, PALETTE_BYTES)
        logged == [call EXCEPT !.reads =
                      Append(@, [pos |-> at, n |-> PALETTE_BYTES, got |-> Len(data)])]
    IN  [ call |-> IF PaletteRaises(data)
                   THEN Raise(logged, "struct.error")
                   ELSE [logged EXCEPT !.pc = "palette",
                                       !.palette = Palette(data, at)],
          pos |-> at + Len(data) ]

(* the seek to offset left out: the sprites are read from where the palette ended *)
SeekStepNoSeek(r, call, pos) ==
    [call |-> [call EXCEPT !.pc = "loop", !.i = 0], pos |-> pos]

(* f.seek(offset); length = size[0] * size[1] * BLOCK; the range is set up *)
SeekStep(r, call, pos) ==
    [call |-> [call EXCEPT !.pc = "loop", !.i = 0], pos |-> call.args.offset]

SpriteLength(size) == size[1] * size[2] * BLOCK

(* one iteration: sprite = Sprite(f.read(length), os, size, palette) *)
SpriteStep(r, call, pos) ==
    LET length == SpriteLength(call.args.size)
        os == call.args.offset + call.i * length
        data == Read(r, pos, length)
        logged == [call EXCEPT !.reads =
                      Append(@, [pos |-> pos, n |-> length, got |-> Len(data)])]
    IN  [ call |-> IF ImageRaises(data, call.args.size, call.palette)
                   THEN Raise(logged, "IndexError")
                   ELSE [logged EXCEPT
                            !.sprites = Append(@, Sprite(data, os, call.args.size,
                                                         call.palette)),
                            !.i = @ + 1],
          pos |-> pos + Len(data) ]

(* the range is exhausted: the with block closes, return sprites *)
ReturnStep(r, call, pos) ==
    [call |-> [call EXCEPT !.pc = "returned", !.ret = call.sprites], pos |-> pos]

Finished(call) == call.pc \in {"returned", "raised"}

(* ---------------------------------------------------------- input sets *)

Sizes == (1..MaxW) \X (1..MaxH)
Quantities == 0..MaxQty
Offsets == {0, 32, 64}
PalOffsets == {0, 1, 16 * (MaxChunks - 1)}

NoRom == [exists |-> FALSE, len |-> 0, pat |-> [mul |-> 0, add |-> 0]]

Roms ==
    {NoRom} \cup
    { [exists |-> TRUE, len |-> 16 * k, pat |-> g] : k \in 0..MaxChunks, g \in Patterns }

CallIds == {1, 2}

NoDecode ==
    [ phase |-> "none",
      palData |-> <<>>, palOffset |-> 0, palStatus |-> "none", palette |-> NoPalette,
      imgData |-> <<>>, imgSize |-> <<1, 1>>, imgStatus |-> "none",
      bytestring |-> <<>>,
      image |-> [pixbuf |-> [width |-> 0, height |-> 0, pixels |-> <<>>]] ]

(* ------------------------------------------------- one search at a time *)

Init ==
    /\ rom \in Roms
    /\ files = [c \in CallIds |-> 0]
    /\ calls = [c \in CallIds |-> IdleCall]
    /\ dec = NoDecode

Apply(c, step) ==
    /\ calls' = [calls EXCEPT ![c] = step.call]
    /\ files' = [files EXCEPT ![Handle(c)] = step.pos]
    /\ UNCHANGED <<rom, dec>>

Search(c, offset, size, paloffset, qty) ==
    /\ calls[c].pc = "idle"
    /\ Apply(c, OpenStep(rom, NewCall(offset, size, paloffset, qty),
                         files[Handle(c)]))

ReadPalette(c) ==
    /\ calls[c].pc = "opened"
    /\ Apply(c, PaletteStep(rom, calls[c], files[Handle(c)]))

SeekSprites(c) ==
    /\ calls[c].pc = "palette"
    /\ Apply(c, SeekStep(rom, calls[c], files[Handle(c)]))

ReadSprite(c) ==
    /\ calls[c].pc = "loop"
    /\ calls[c].i < calls[c].args.qty
    /\ Apply(c, SpriteStep(rom, calls[c], files[Handle(c)]))

Return(c) ==
    /\ calls[c].pc = "loop"
    /\ calls[c].i >= calls[c].args.qty
    /\ Apply(c, ReturnStep(rom, calls[c], files[Handle(c)]))

Next ==
    \/ \E o \in Offsets, s \in Sizes, p \in PalOffsets, q \in Quantities :
          Search(1, o, s, p, q)
    \/ ReadPalette(1)
    \/ SeekSprites(1)
    \/ ReadSprite(1)
    \/ Return(1)

Spec == Init /\ [][Next]_vars

(* ------------------------------------------- searches running together *)

ConcSizes == {<<1, 1>>}
ConcOffsets == {0, 32}
ConcPalOffsets == {0, 16}
ConcRoms ==
    { r \in Roms : r.exists /\ r.len \in {48, 16 * MaxChunks}
                            /\ r.pat = [mul |-> 37, add |-> 11] }

InitConc ==
    /\ rom \in ConcRoms
    /\ files = [c \in CallIds |-> 0]
    /\ calls = [c \in CallIds |-> IdleCall]
    /\ dec = NoDecode

NextConc ==
    \E c \in CallIds :
        \/ \E o \in ConcOffsets, s \in ConcSizes, p \in ConcPalOffsets,
              q \in Quantities : Search(c, o, s, p, q)
        \/ ReadPalette(c)
        \/ SeekSprites(c)
        \/ ReadSprite(c)
        \/ Return(c)

SpecConc == InitConc /\ [][NextConc]_vars

(* the search of `call` run to its end on a file object of its own *)
RECURSIVE RunAlone(_, _, _)
RunAlone(r, call, pos) ==
    IF Finished(call) THEN call
    ELSE LET step ==
                 CASE call.pc = "called" -> OpenStep(r, call, pos)
                   [] call.pc = "opened" -> PaletteStep(r, call, pos)
                   [] call.pc = "palette" -> SeekStep(r, call, pos)
                   [] call.pc = "loop" /\ call.i < call.args.qty ->
                          SpriteStep(r, call, pos)
                   [] OTHER -> ReturnStep(r, call, pos)
         IN  RunAlone(r, step.call, step.pos)

(* ------------------------------------------- the constructors on their own *)

PalLens == {0, 1, PALETTE_BYTES \div 2, PALETTE_BYTES - 1, PALETTE_BYTES}
PalStarts == {0, 7}

ImgLens(size) ==
    { n \in { 0, 1, 16, SpriteLength(size) - BLOCK, SpriteLength(size) - 1,
              SpriteLength(size), SpriteLength(size) + 1 } : n >= 0 }

DecodeInput(palData, palOffset, imgData, imgSize) ==
    [ NoDecode EXCEPT !.phase = "input", !.palData = palData,
                      !.palOffset = palOffset, !.imgData = imgData,
                      !.imgSize = imgSize ]

InitDecode ==
    /\ rom = NoRom
    /\ files = [c \in CallIds |-> 0]
    /\ calls = [c \in CallIds |-> IdleCall]
    /\ \E g \in Patterns, s \in PalStarts, n \in PalLens :
       \E h \in Patterns, size \in Sizes :
       \E m \in ImgLens(size) :
          dec = DecodeInput(Bytes(g, s, n), s, Bytes(h, 0, m), size)

(* palette = Palette(data, offset) *)
MakePalette ==
    /\ dec.phase = "input"
    /\ dec' = IF PaletteRaises(dec.palData)
              THEN [dec EXCEPT !.phase = "raised", !.palStatus = "struct.error"]
              ELSE [dec EXCEPT !.phase = "palette", !.palStatus = "ok",
                               !.palette = Palette(dec.palData, dec.palOffset)]
    /\ UNCHANGED <<rom, files, calls>>

(* Image(data, size, palette) *)
MakeImage ==
    /\ dec.phase = "palette"
    /\ dec' = IF ImageRaises(dec.imgData, dec.imgSize, dec.palette)
              THEN [dec EXCEPT !.phase = "raised", !.imgStatus = "IndexError"]
              ELSE [dec EXCEPT
                      !.phase = "image", !.imgStatus = "ok",
                      !.bytestring = IF dec.imgData = <<>> THEN <<>>
                                     ELSE Bytestring(dec.imgData, dec.imgSize),
                      !.image = Image(dec.imgData, dec.imgSize, dec.palette)]
    /\ UNCHANGED <<rom, files, calls>>

NextDecode == MakePalette \/ MakeImage

SpecDecode == InitDecode /\ [][NextDecode]_vars

(* ================================================================ claims *)

PaletteMade == dec.palStatus = "ok"
ImageMade == dec.imgStatus = "ok"
Placeholder == ImageMade /\ dec.imgData = <<>>
Decoded == ImageMade /\ dec.imgData # <<>>
Need == SpriteLength(dec.imgSize)

(* the 16-bit little-endian value at bytes 2k and 2k+1 (k from 0) of the palette input *)
PalWord(k) == dec.palData[2 * k + 1] + 256 * dec.palData[2 * k + 2]

(* the data index the claim names for pixel (px, py) *)
C5_ByteIndex(px, py) ==
    ((py \div 8) * dec.imgSize[1] + (px \div 8)) * 32 + (py % 8) * 4 + ((px % 8) \div 2)

(* C5: for raw data of length w*h*32, the colour index at raster position    *)
(* py*(8*w) + px is the nibble (low for even px, high for odd px) of the     *)
(* byte at ((py div 8)*w + (px div 8))*32 + (py mod 8)*4 + ((px mod 8) div 2) *)
C5_RasterOrder ==
    (Decoded /\ Len(dec.imgData) = Need) =>
        /\ Len(dec.bytestring) = (8 * dec.imgSize[1]) * (8 * dec.imgSize[2])
        /\ \A px \in 0..(8 * dec.imgSize[1] - 1) :
           \A py \in 0..(8 * dec.imgSize[2] - 1) :
              dec.bytestring[py * (8 * dec.imgSize[1]) + px + 1] =
                 IF px % 2 = 0
                 THEN dec.imgData[C5_ByteIndex(px, py) + 1] % 16
                 ELSE dec.imgData[C5_ByteIndex(px, py) + 1] \div 16

(* two tile columns decoded from data whose tiles differ *)
C5_Witness ==
    /\ Decoded
    /\ Len(dec.imgData) = Need
    /\ dec.imgSize = <<2, 1>>
    /\ dec.imgData[1] # dec.imgData[33]
    /\ dec.bytestring[10] # dec.bytestring[2]

(* C6: a 32-byte palette decodes to exactly 16 colours, colour k being       *)
(* R = (c & 0x1F)*8, G = ((c & 0x3E0) >> 5)*8, B = ((c & 0x7C00) >> 10)*8 of *)
(* the little-endian word c at bytes 2k, 2k+1; every channel is a multiple   *)
(* of 8 in 0..248 and bit 15 of c changes nothing                            *)
C6_PaletteColors ==
    (PaletteMade /\ Len(dec.palData) = PALETTE_BYTES) =>
        /\ Len(dec.palette.colors) = 16
        /\ \A k \in 0..15 :
             LET low15 == PalWord(k) % 32768
                 color == dec.palette.colors[k + 1]
             IN  /\ color = << (low15 % 32) * 8,
                               ((low15 \div 32) % 32) * 8,
                               ((low15 \div 1024) % 32) * 8 >>
                 /\ \A ch \in 1..3 : color[ch] \in {8 * v : v \in 0..31}

(* a full palette holding a word with bit 15 set and a channel at its maximum *)
C6_Witness ==
    /\ PaletteMade
    /\ Len(dec.palData) = PALETTE_BYTES
    /\ \E k \in 0..15 : PalWord(k) >= 32768 /\ dec.palette.colors[k + 1][3] = 248
    /\ \E k \in 0..15 : PalWord(k) < 32768 /\ dec.palette.colors[k + 1][1] # 0

C10_FullBuffer ==
    /\ ImageMade =>
          /\ Len(dec.image.pixbuf.pixels) =
                dec.image.pixbuf.width * dec.image.pixbuf.height
          /\ \A k \in 1..Len(dec.image.pixbuf.pixels) :
                \A ch \in 1..3 : dec.image.pixbuf.pixels[k][ch] \in 0..255
    /\ (dec.imgStatus # "none" /\ dec.imgData # <<>> /\ Len(dec.imgData) < Need) =>
          dec.imgStatus = "IndexError"

(* an image decoded from more bytes than its size needs *)
C10_Witness ==
    /\ Decoded
    /\ Len(dec.imgData) > Need
    /\ dec.imgSize[1] > 1

(* a short, non-empty buffer met a full palette and no image came of it *)
C10_ShortRaises ==
    /\ dec.imgStatus = "IndexError"
    /\ Len(dec.palette.colors) = 16
    /\ Len(dec.imgData) = Need - 1

(* ------------------------------------------------------ claims on search *)

Length(c) == SpriteLength(calls[c].args.size)

(* the read log of a call without the byte counts that came back *)
Issued(c) == [k \in 1..Len(calls[c].reads) |->
                 [pos |-> calls[c].reads[k].pos, n |-> calls[c].reads[k].n]]

(* the sprite reads of call c that came back short, as 0-based sprite numbers *)
ShortReads(c) ==
    { k \in 0..(Len(calls[c].reads) - 2) : calls[c].reads[k + 2].got < Length(c) }

(* C1 as stated: on a source that opens, a finished search has issued one    *)
(* 32-byte read at P, then n reads of w*h*32 bytes at O + i*w*h*32 for       *)
(* i = 0..n-1 in that order, and nothing else                                *)
C1_ReadSchedule ==
    \A c \in CallIds :
        (Finished(calls[c]) /\ rom.exists) =>
            Issued(c) =
                [k \in 1..(calls[c].args.qty + 1) |->
                    IF k = 1
                    THEN [pos |-> calls[c].args.paloffset, n |-> 32]
                    ELSE [pos |-> calls[c].args.offset + (k - 2) * Length(c),
                          n |-> Length(c)]]

(* C2: when the source does not exist, search returns the empty sequence,    *)
(* whatever its arguments, and no exception reaches the caller               *)
C2_MissingSourceEmpty ==
    \A c \in CallIds :
        (calls[c].pc # "idle" /\ ~rom.exists) =>
            /\ calls[c].pc = "returned"
            /\ calls[c].ret = <<>>
            /\ calls[c].exc = ""

(* a search for several sprites on a missing source has returned *)
C2_Witness ==
    /\ ~rom.exists
    /\ calls[1].pc = "returned"
    /\ calls[1].args.qty = MaxQty
    /\ calls[1].args.size # <<1, 1>>

(* C3 as stated: with a full palette, when the read for sprite k comes back  *)
(* short (or empty), search still returns, its result starts with the        *)
(* sprites 0..k-1 and holds no sprite for k                                  *)
C3_TruncatedSpriteSkipped ==
    \A c \in CallIds :
        (Finished(calls[c]) /\ rom.exists /\ calls[c].reads[1].got = 32) =>
            \A k \in ShortReads(c) :
                /\ calls[c].pc = "returned"
                /\ Len(calls[c].ret) >= k
                /\ \A i \in 1..k :
                      calls[c].ret[i].offset = calls[c].args.offset + (i - 1) * Length(c)
                /\ \A i \in 1..Len(calls[c].ret) :
                      calls[c].ret[i].offset # calls[c].args.offset + k * Length(c)

(* C4 as stated: when the palette read comes back with fewer than 32 bytes,  *)
(* search ends with an empty result: no sprite is produced and no exception  *)
(* escapes                                                                   *)
C4_MalformedPaletteAborts ==
    \A c \in CallIds :
        (Finished(calls[c]) /\ rom.exists /\ calls[c].reads[1].got < 32) =>
            /\ calls[c].pc = "returned"
            /\ calls[c].ret = <<>>

C8_Independent ==
    \A c \in CallIds :
        Finished(calls[c]) =>
            LET a == calls[c].args
                alone == RunAlone(rom, NewCall(a.offset, a.size, a.paloffset, a.qty), 0)
            IN  /\ calls[c].pc = alone.pc
                /\ calls[c].ret = alone.ret
                /\ calls[c].exc = alone.exc
                /\ calls[c].reads = alone.reads

(* one search has returned two sprites while another, reading elsewhere, is  *)
(* in the middle of its own                                                  *)
C8_Witness ==
    /\ calls[1].pc = "returned"
    /\ Len(calls[1].ret) >= 2
    /\ calls[2].pc = "loop"
    /\ calls[2].i = 1
    /\ calls[2].args.qty >= 2
    /\ calls[2].args.offset # calls[1].args.offset
    /\ calls[2].sprites[1].image # calls[1].ret[1].image

====
